---- MODULE Spec2Model ----
(***************************************************************************)
(* A model of rod's Browser (browser.go): the Browser value and its        *)
(* clones, the contexts they carry, the cdp client and its event stream,   *)
(* the two goroutines started by initEvents, the goroutine started per     *)
(* event for Publish, the callers of Subscribe / WaitEventE / CloseE, the  *)
(* caller of Call, and the targets that PageE makes and PagesE lists.      *)
(*                                                                         *)
(* kit.Observable, context, cdp.Client, the remote's targets and the page  *)
(* handshake are not part of browser.go; the definitions that stand for    *)
(* them are marked as such where they appear.                              *)
(***************************************************************************)
EXTENDS Naturals, Sequences, FiniteSets

\* Bounds of the model.
MaxOpens == 2
MaxClones == 1
MaxEvents == 2
MaxSubs == 1

\* Method names of protocol events, and the names WaitEventE is called with.
Methods == {"X", "Y"}

\* Durations given to Timeout: 0 is an already expired deadline, 1 any
\* positive duration.
Durations == {0, 1}

VARIABLES
    browsers,   \* Seq of Browser values: browsers[1] is the original, the rest clones
    ctxs,       \* Seq of contexts: [parent, err, kind]
    remotes,    \* Seq of BOOLEAN: the browser processes, TRUE while running
    clients,    \* Seq of cdp clients with what initEvents started for each
    stream,     \* stream[g]: the messages waiting in client g's Event() channel
    nEvents,    \* number of events the remotes have sent so far
    pubs,       \* the goroutines started by "go b.event.Publish(msg)", not yet run
    pubLog,     \* pubLog[g]: the events Publish has run for on event bus g, in order
    subs,       \* Seq of subscriptions on event buses (Subscribe and Until)
    fatalQ,     \* fatalQ[g]: errors published on fatal bus g and not yet drained
    closeRes,   \* the last CloseE: the Browser value it was called on and what it returned
    ret,        \* the last PageE or PagesE: what it was called on and what it returned
    targets,    \* targets[r]: the targets of browser process r, in the order of getTargets
    call        \* the caller of Browser.Call: where it is in the call, and its result

vars == <<browsers, ctxs, remotes, clients, stream, nEvents, pubs, pubLog, subs,
          fatalQ, closeRes, ret, targets, call>>

----------------------------------------------------------------------------
\* Contexts.  0 as a parent is context.Background(); 0 as a Browser's ctx is nil.

RECURSIVE CtxErrIn(_, _)
CtxErrIn(cs, c) ==
    IF c = 0 THEN "none"
    ELSE IF cs[c].err # "none" THEN cs[c].err
    ELSE CtxErrIn(cs, cs[c].parent)

\* ctx.Err() of context c: "none" while c is live
CtxErr(c) == CtxErrIn(ctxs, c)

\* context.WithCancel(parent)
WithCancel(parent, kind) == [parent |-> parent, err |-> "none", kind |-> kind]

\* context.WithTimeout(parent, d): a deadline that has already passed cancels
\* the new context with DeadlineExceeded unless the parent is already done.
WithTimeout(parent, d) ==
    [parent |-> parent,
     err    |-> IF d = 0 /\ CtxErr(parent) = "none" THEN "deadline" ELSE "none",
     kind   |-> "timeout"]

\* calling the cancel function of context c
Cancelled(cs, c) ==
    IF CtxErrIn(cs, c) = "none" THEN [cs EXCEPT ![c].err = "canceled"] ELSE cs

----------------------------------------------------------------------------
\* The Browser value.

\* The zero value &Browser{}
ZeroBrowser ==
    [ctx |-> 0, timeoutCancel |-> 0, close |-> 0, client |-> 0,
     event |-> 0, fatal |-> 0, ControlURL |-> 0]

B == DOMAIN browsers
G == DOMAIN clients

\* the transport of client g is up: its context is live and its browser runs
ClientAlive(g) ==
    /\ g # 0
    /\ CtxErr(clients[g].ctx) = "none"
    /\ remotes[clients[g].remote]

\* b is opened with a live connection
LiveConn(b) == ClientAlive(browsers[b].client)

\* what an operation returned: the value (val, with isNil for a nil one), the
\* error, and the targets whose session handshake it ran
Return(op, b, val, isNil, err, shakes) ==
    [op |-> op, b |-> b, val |-> val, isNil |-> isNil, err |-> err, shakes |-> shakes]

NoReturn == Return("", 0, <<>>, TRUE, "", <<>>)

\* the error value a failed call gives back
ErrOf(res) == IF res = "ok" THEN "nil" ELSE "err"

Init ==
    /\ browsers = <<ZeroBrowser>>
    /\ ctxs = <<>>
    /\ remotes = <<>>
    /\ clients = <<>>
    /\ stream = <<>>
    /\ nEvents = 0
    /\ pubs = {}
    /\ pubLog = <<>>
    /\ subs = <<>>
    /\ fatalQ = <<>>
    /\ closeRes = [b |-> 0, err |-> ""]
    /\ ret = NoReturn
    /\ targets = <<>>
    /\ call = [pc |-> 0, b |-> 0, method |-> "", log |-> <<>>, res |-> ""]

----------------------------------------------------------------------------
\* The transport (cdp.Client), as the Browser uses it.

\* cdp.GetWebSocketDebuggerURL(url) answers: a browser is running at url
Reachable(rs, url) == url # 0 /\ rs[url]

\* The possible results of client.Call(ctx, msg): the context's error once the
\* scope has fired, an error on a connection that is down, and otherwise the
\* remote's answer, a result or a protocol error.
ClientCall(cs, rs, cl, c, g) ==
    IF CtxErrIn(cs, c) # "none" THEN {CtxErrIn(cs, c)}
    ELSE IF CtxErrIn(cs, cl[g].ctx) # "none" \/ ~rs[cl[g].remote] THEN {"closed"}
    ELSE {"ok", "error"}

\* Browser.Call: the slow-motion delay, then client.Call under b.ctx
Call(br) == ClientCall(ctxs, remotes, clients, br.ctx, br.client)

\* cdp.New(ctx, url): no connection is made under a context that is done
NewClient(cs, c) == IF CtxErrIn(cs, c) = "none" THEN {"ok", "error"} ELSE {"error"}

----------------------------------------------------------------------------
\* Open, clone, close.

\* What initEvents starts for a new client: the event pump and the fatal drain.
initEvents(b, c, url) ==
    [ctx |-> c, remote |-> url, owner |-> b,
     pumping |-> TRUE, draining |-> TRUE, closed |-> FALSE]

\* b.OpenE() returning (val, err): val is <<>> for a nil *Browser and <<b>> for b
OpenEReturns(b, val, err) ==
    LET br     == browsers[b]
        fresh  == br.ctx = 0
        cs     == IF fresh THEN Append(ctxs, WithCancel(0, "root")) ELSE ctxs
        c      == IF fresh THEN Len(cs) ELSE br.ctx
        br1    == [br EXCEPT !.ctx = c, !.close = IF fresh THEN c ELSE @]
        found  == Reachable(remotes, br.ControlURL)
    IN
    /\ Len(remotes) < MaxOpens
    /\ Len(clients) < MaxOpens
    /\ UNCHANGED <<nEvents, pubs, subs, closeRes, ret, call>>
    /\ \/ \* LaunchBrowser fails: return nil, err
          /\ ~found
          /\ val = <<>> /\ err = "err"
          /\ browsers' = [browsers EXCEPT ![b] = br1]
          /\ ctxs' = cs
          /\ UNCHANGED <<remotes, clients, stream, pubLog, fatalQ, targets>>
       \/ \E res \in NewClient(cs, c) :
            LET rs  == IF found THEN remotes ELSE Append(remotes, TRUE)
                url == IF found THEN br.ControlURL ELSE Len(rs)
                br2 == [br1 EXCEPT !.ControlURL = url]
                g   == Len(clients) + 1
                cl  == Append(clients, initEvents(b, c, url))
            IN
            /\ ctxs' = cs
            /\ remotes' = rs
            /\ targets' = IF found THEN targets ELSE Append(targets, <<>>)
            /\ IF res = "error"
               THEN \* cdp.New fails: return nil, err
                    /\ val = <<>> /\ err = "err"
                    /\ browsers' = [browsers EXCEPT ![b] = br2]
                    /\ UNCHANGED <<clients, stream, pubLog, fatalQ>>
               ELSE \* b.client = client; return b, b.initEvents()
                    /\ val = <<b>>
                    /\ \E disc \in ClientCall(cs, rs, cl, c, g) : err = ErrOf(disc)
                    /\ browsers' = [browsers EXCEPT ![b] =
                          [br2 EXCEPT !.client = g, !.event = g, !.fatal = g]]
                    /\ clients' = cl
                    /\ stream' = Append(stream, <<>>)
                    /\ pubLog' = Append(pubLog, <<>>)
                    /\ fatalQ' = Append(fatalQ, 0)

\* b.OpenE(), whatever it returns
OpenE(b) ==
    \E val \in {<<>>, <<b>>}, err \in {"nil", "err"} : OpenEReturns(b, val, err)

\* a Ctx that builds its clone from the zero value: &Browser{ctx: ctx}
CtxFresh(b) ==
    /\ Len(browsers) < 1 + MaxClones
    /\ ctxs' = Append(ctxs, WithCancel(0, "user"))
    /\ browsers' = Append(browsers, [ZeroBrowser EXCEPT !.ctx = Len(ctxs) + 1])
    /\ UNCHANGED <<remotes, clients, stream, nEvents, pubs, pubLog, subs, fatalQ, closeRes, ret, targets, call>>

\* a Ctx whose clone does not keep the cancel function of the root scope
CtxWithoutClose(b) ==
    /\ Len(browsers) < 1 + MaxClones
    /\ ctxs' = Append(ctxs, WithCancel(0, "user"))
    /\ browsers' = Append(browsers, [browsers[b] EXCEPT !.ctx = Len(ctxs) + 1, !.close = 0])
    /\ UNCHANGED <<remotes, clients, stream, nEvents, pubs, pubLog, subs, fatalQ, closeRes, ret, targets, call>>

\* b.Ctx(ctx) with a context of the caller's own
Ctx(b) ==
    /\ Len(browsers) < 1 + MaxClones
    /\ ctxs' = Append(ctxs, WithCancel(0, "user"))
    /\ browsers' = Append(browsers, [browsers[b] EXCEPT !.ctx = Len(ctxs) + 1])
    /\ UNCHANGED <<remotes, clients, stream, nEvents, pubs, pubLog, subs, fatalQ, closeRes, ret, targets, call>>

\* a Timeout that derives its context from context.Background()
TimeoutDetached(b, d) ==
    LET c == Len(ctxs) + 1 IN
    /\ Len(browsers) < 1 + MaxClones
    /\ browsers[b].ctx # 0
    /\ ctxs' = Append(ctxs, WithTimeout(0, d))
    /\ browsers' = Append([browsers EXCEPT ![b].timeoutCancel = c],
                          [browsers[b] EXCEPT !.timeoutCancel = c, !.ctx = c])
    /\ UNCHANGED <<remotes, clients, stream, nEvents, pubs, pubLog, subs, fatalQ, closeRes, ret, targets, call>>

\* b.Timeout(d); context.WithTimeout panics on a nil parent, so b.ctx is set
Timeout(b, d) ==
    LET c == Len(ctxs) + 1 IN
    /\ Len(browsers) < 1 + MaxClones
    /\ browsers[b].ctx # 0
    /\ ctxs' = Append(ctxs, WithTimeout(browsers[b].ctx, d))
    /\ browsers' = Append([browsers EXCEPT ![b].timeoutCancel = c],
                          [browsers[b] EXCEPT !.timeoutCancel = c, !.ctx = c])
    /\ UNCHANGED <<remotes, clients, stream, nEvents, pubs, pubLog, subs, fatalQ, closeRes, ret, targets, call>>

\* the deadline of a Timeout context passes
Expire(c) ==
    /\ ctxs[c].kind = "timeout"
    /\ CtxErr(c) = "none"
    /\ ctxs' = [ctxs EXCEPT ![c].err = "deadline"]
    /\ UNCHANGED <<browsers, remotes, clients, stream, nEvents, pubs, pubLog, subs,
                   fatalQ, closeRes, ret, targets, call>>

\* the caller cancels a context it gave to Ctx
UserCancel(c) ==
    /\ ctxs[c].kind = "user"
    /\ CtxErr(c) = "none"
    /\ ctxs' = [ctxs EXCEPT ![c].err = "canceled"]
    /\ UNCHANGED <<browsers, remotes, clients, stream, nEvents, pubs, pubLog, subs,
                   fatalQ, closeRes, ret, targets, call>>

\* b.CloseE() on a Browser that has a client
CloseE(b) ==
    LET br == browsers[b]
        g  == br.client
    IN
    /\ g # 0
    /\ UNCHANGED <<browsers, stream, nEvents, pubs, pubLog, subs, fatalQ, ret,
                   targets, call>>
    /\ \E res \in Call(br) :
         IF res # "ok"
         THEN \* return err
              /\ closeRes' = [b |-> b, err |-> "err"]
              /\ UNCHANGED <<ctxs, remotes, clients>>
         ELSE \* the browser process exits; b.close(), if set; return nil
              /\ closeRes' = [b |-> b, err |-> "nil"]
              /\ remotes' = [remotes EXCEPT ![clients[g].remote] = FALSE]
              /\ clients' = [clients EXCEPT ![g].closed = TRUE]
              /\ ctxs' = IF br.close # 0 THEN Cancelled(ctxs, br.close) ELSE ctxs
----------------------------------------------------------------------------
\* The event bus (kit.Observable) of b.event, and the goroutines that feed it.

\* msg.Params of an event, and kit.JSON(kit.MustToJSON(params)); a nil
\* kit.JSONResult is <<>>
Params(e) == e.id
JSON(p) == <<p>>

\* the remote sends an event, which waits in client g's Event() channel
RemoteEmit(g, m) ==
    /\ nEvents < MaxEvents
    /\ ClientAlive(g)
    /\ nEvents' = nEvents + 1
    /\ stream' = [stream EXCEPT ![g] =
                    Append(@, [id |-> nEvents + 1, client |-> g, Method |-> m])]
    /\ UNCHANGED <<browsers, ctxs, remotes, clients, pubs, pubLog, subs, fatalQ,
                   closeRes, ret, targets, call>>

\* a pump whose goroutine reads the loop variable late: it publishes the newest
\* message of the channel instead of the one it was started for
PumpSpawnLate(g, msg) ==
    {[bus |-> browsers[clients[g].owner].event, ev |-> stream[g][Len(stream[g])]]}

\* what one turn of the event pump starts for msg: go b.event.Publish(msg),
\* with b.event read when the go statement runs
PumpSpawn(g, msg) == {[bus |-> browsers[clients[g].owner].event, ev |-> msg]}

\* for msg := range b.client.Event() { go b.event.Publish(msg) }
PumpStep(g) ==
    /\ clients[g].pumping
    /\ ClientAlive(g)
    /\ stream[g] # <<>>
    /\ pubs' = pubs \cup PumpSpawn(g, Head(stream[g]))
    /\ stream' = [stream EXCEPT ![g] = Tail(@)]
    /\ UNCHANGED <<browsers, ctxs, remotes, clients, nEvents, pubLog, subs, fatalQ,
                   closeRes, ret, targets, call>>

\* the Event() channel ends when the transport closes, and the range loop with it
PumpExit(g) ==
    /\ clients[g].pumping
    /\ ~ClientAlive(g)
    /\ clients' = [clients EXCEPT ![g].pumping = FALSE]
    /\ UNCHANGED <<browsers, ctxs, remotes, stream, nEvents, pubs, pubLog, subs,
                   fatalQ, closeRes, ret, targets, call>>

\* Observable.Publish(e), run by its goroutine: e goes to every subscription
\* of the bus; one made by Until takes nothing once its scope has fired
Delivered(s, p) ==
    IF /\ s.bus = p.bus
       /\ s.active
       /\ (s.kind = "until" => CtxErr(s.ctx) = "none")
    THEN [s EXCEPT !.got = Append(@, p.ev)]
    ELSE s

Publish(p) ==
    /\ p \in pubs
    /\ pubs' = pubs \ {p}
    /\ pubLog' = [pubLog EXCEPT ![p.bus] = Append(@, p.ev)]
    /\ subs' = [i \in DOMAIN subs |-> Delivered(subs[i], p)]
    /\ UNCHANGED <<browsers, ctxs, remotes, clients, stream, nEvents, fatalQ,
                   closeRes, ret, targets, call>>

\* b.Event().Subscribe() by the caller
Subscribe(b) ==
    /\ Len(subs) < MaxSubs
    /\ browsers[b].event # 0
    /\ subs' = Append(subs,
          [kind |-> "sub", bus |-> browsers[b].event, ctx |-> 0, name |-> "",
           since |-> Len(pubLog[browsers[b].event]), got |-> <<>>, pos |-> 0,
           active |-> TRUE, expired |-> FALSE, payload |-> <<>>, err |-> ""])
    /\ UNCHANGED <<browsers, ctxs, remotes, clients, stream, nEvents, pubs, pubLog,
                   fatalQ, closeRes, ret, targets, call>>

\* the subscriber takes its next event from the subscription's channel
Receive(i) ==
    /\ subs[i].kind = "sub"
    /\ subs[i].pos < Len(subs[i].got)
    /\ subs' = [subs EXCEPT ![i].pos = @ + 1]
    /\ UNCHANGED <<browsers, ctxs, remotes, clients, stream, nEvents, pubs, pubLog,
                   fatalQ, closeRes, ret, targets, call>>

\* a predicate that takes any event
EventMatchesAny(e, name) == TRUE

\* the predicate WaitEventE gives to Until
EventMatches(e, name) == e.Method = name

\* a WaitEventE that waits under no scope
WaitScopeNone(br) == 0

\* the scope WaitEventE gives to Until: b.ctx
WaitScope(br) == br.ctx

\* b.WaitEventE(name) is called: Until subscribes to b.Event() under b.ctx
WaitEventE(b, name) ==
    /\ Len(subs) < MaxSubs
    /\ browsers[b].event # 0
    /\ browsers[b].ctx # 0
    /\ subs' = Append(subs,
          [kind |-> "until", bus |-> browsers[b].event, ctx |-> WaitScope(browsers[b]),
           name |-> name, since |-> Len(pubLog[browsers[b].event]), got |-> <<>>,
           pos |-> 0, active |-> TRUE,
           expired |-> CtxErr(browsers[b].ctx) = "deadline",
           payload |-> <<>>, err |-> ""])
    /\ UNCHANGED <<browsers, ctxs, remotes, clients, stream, nEvents, pubs, pubLog,
                   fatalQ, closeRes, ret, targets, call>>

\* what WaitEventE returns for Until's (msg, nil) and (nil, err)
WaitResult(s, e) == [s EXCEPT !.active = FALSE, !.payload = JSON(Params(e)), !.err = "nil"]
WaitError(s, err) == [s EXCEPT !.active = FALSE, !.payload = <<>>, !.err = err]

\* Unsubscribe: the subscription leaves the bus and its channel is dropped
Unsubscribed(s) == [s EXCEPT !.active = FALSE, !.got = <<>>, !.pos = 0]

\* Until takes the next event and checks it, or sees the scope fired; it
\* unsubscribes as it returns, and WaitEventE returns with it
UntilStep(i) ==
    LET s == subs[i] IN
    /\ s.kind = "until"
    /\ s.active
    /\ UNCHANGED <<browsers, ctxs, remotes, clients, stream, nEvents, pubs, pubLog,
                   fatalQ, closeRes, ret, targets, call>>
    /\ IF s.pos < Len(s.got)
       THEN LET e == s.got[s.pos + 1] IN
            IF EventMatches(e, s.name)
            THEN subs' = [subs EXCEPT ![i] = WaitResult(Unsubscribed(s), e)]
            ELSE subs' = [subs EXCEPT ![i].pos = @ + 1]
       ELSE /\ CtxErr(s.ctx) # "none"
            /\ subs' = [subs EXCEPT ![i] = WaitError(Unsubscribed(s), CtxErr(s.ctx))]

----------------------------------------------------------------------------
\* The fatal bus of b.fatal and its drain goroutine.

\* the browser process dies; the error is published on the fatal bus of each
\* client connected to it
RemoteCrash(r) ==
    /\ remotes[r]
    /\ remotes' = [remotes EXCEPT ![r] = FALSE]
    /\ fatalQ' = [g \in DOMAIN fatalQ |->
                    IF clients[g].remote = r /\ CtxErr(clients[g].ctx) = "none"
                    THEN fatalQ[g] + 1 ELSE fatalQ[g]]
    /\ UNCHANGED <<browsers, ctxs, clients, stream, nEvents, pubs, pubLog, subs,
                   closeRes, ret, targets, call>>

\* for err := range b.fatal.Subscribe().C { OnFatal or kit.Err }
DrainStep(g) ==
    /\ clients[g].draining
    /\ fatalQ[g] > 0
    /\ fatalQ' = [fatalQ EXCEPT ![g] = @ - 1]
    /\ UNCHANGED <<browsers, ctxs, remotes, clients, stream, nEvents, pubs, pubLog,
                   subs, closeRes, ret, targets, call>>

----------------------------------------------------------------------------
\* Browser.Call as its caller runs it, statement by statement.

\* a Call that sends the message first and sleeps afterwards
CallOrderSwapped == <<"client.Call", "slowmotion">>

\* the statements of Browser.Call in the order they run:
\* b.slowmotion(msg.Method), then b.client.Call(b.ctx, msg)
CallOrder == <<"slowmotion", "client.Call">>

\* b.Call(msg) is called with msg.Method = m; client.Call on a nil client panics
CallBegin(b, m) ==
    /\ call.pc = 0
    /\ browsers[b].client # 0
    /\ call' = [pc |-> 1, b |-> b, method |-> m, log |-> <<>>, res |-> ""]
    /\ UNCHANGED <<browsers, ctxs, remotes, clients, stream, nEvents, pubs, pubLog, subs,
                   fatalQ, closeRes, ret, targets>>

\* the next statement of the Call in progress runs to its end: the delay
\* elapses, or the transport answers
CallStep ==
    /\ call.pc \in DOMAIN CallOrder
    /\ UNCHANGED <<browsers, ctxs, remotes, clients, stream, nEvents, pubs, pubLog, subs,
                   fatalQ, closeRes, ret, targets>>
    /\ LET st == CallOrder[call.pc] IN
       \/ /\ st = "slowmotion"
          /\ call' = [call EXCEPT !.pc = @ + 1, !.log = Append(@, st)]
       \/ /\ st = "client.Call"
          /\ \E res \in Call(browsers[call.b]) :
               call' = [call EXCEPT !.pc = @ + 1, !.log = Append(@, st), !.res = res]

\* Call returns what the transport answered
CallReturn ==
    /\ call.pc = Len(CallOrder) + 1
    /\ call' = [call EXCEPT !.pc = 0]
    /\ UNCHANGED <<browsers, ctxs, remotes, clients, stream, nEvents, pubs, pubLog, subs,
                   fatalQ, closeRes, ret, targets>>

----------------------------------------------------------------------------
\* Targets and pages.

\* Bound of the model: the targets one browser process ever has.
MaxTargets == 2

\* the types of target a browser reports
TargetTypes == {"page", "other"}

\* a target of the browser process: id is its place in targets[r]; made records
\* that a PageE has returned it with no error
Target(id, type) == [id |-> id, type |-> type, open |-> TRUE, made |-> FALSE]

\* a target appears in browser process r without PageE: a window the user
\* opens, a worker
TargetOpened(r, type) ==
    /\ remotes[r]
    /\ Len(targets[r]) < MaxTargets
    /\ targets' = [targets EXCEPT ![r] = Append(@, Target(Len(@) + 1, type))]
    /\ UNCHANGED <<browsers, ctxs, remotes, clients, stream, nEvents, pubs, pubLog, subs,
                   fatalQ, closeRes, ret, call>>

\* target k of browser process r is closed
TargetClosed(r, k) ==
    /\ remotes[r]
    /\ targets[r][k].open
    /\ targets' = [targets EXCEPT ![r][k].open = FALSE]
    /\ UNCHANGED <<browsers, ctxs, remotes, clients, stream, nEvents, pubs, pubLog, subs,
                   fatalQ, closeRes, ret, call>>

\* the answer to Target.getTargets: the open targets, in order
TargetInfos(r) == SelectSeq(targets[r], LAMBDA t : t.open)

\* the results page.initSession() can have: it attaches to the target with a
\* call under the page's ctx, which is b.ctx
initSession(br) == Call(br)

\* b.page(targetID), with h the result of the handshake: the page is returned
\* whatever page.initSession() returned
page(targetID, h) == [val |-> <<targetID>>, isNil |-> FALSE, err |-> ErrOf(h)]

\* b.PageE(url)
PageE(b) ==
    LET br == browsers[b]
        r  == clients[br.client].remote
        id == Len(targets[r]) + 1
    IN
    /\ br.client # 0
    /\ UNCHANGED <<browsers, ctxs, remotes, clients, stream, nEvents, pubs, pubLog, subs,
                   fatalQ, closeRes, call>>
    /\ \E res \in Call(br) :
         IF res # "ok"
         THEN \* return nil, err
              /\ ret' = Return("PageE", b, <<>>, TRUE, ErrOf(res), <<>>)
              /\ UNCHANGED targets
         ELSE \* the browser has made the target; return b.page(targetId)
              /\ id <= MaxTargets
              /\ \E h \in initSession(br) :
                   LET pg == page(id, h) IN
                   /\ ret' = Return("PageE", b, pg.val, pg.isNil, pg.err, <<id>>)
                   /\ targets' = [targets EXCEPT ![r] =
                         Append(@, [Target(id, "page") EXCEPT !.made = pg.err = "nil"])]

\* a PagesE that resolves every target
IsAnyType(t) == TRUE

\* the test of PagesE's loop: target.Get("type").String() != "page" is skipped
IsPageType(t) == t.type = "page"

\* a PagesE that keeps only the page it resolved last
KeepLastPage(pageList, pg) == <<pg>>

\* pageList = append(pageList, page)
AppendPage(pageList, pg) == Append(pageList, pg)

\* the loop of PagesE over the targetInfos left, hs[id] being what the
\* handshake with target id answers
RECURSIVE PagesLoop(_, _, _, _)
PagesLoop(infos, hs, pageList, shakes) ==
    IF infos = <<>> THEN Return("PagesE", 0, pageList, FALSE, "nil", shakes)
    ELSE LET t == Head(infos) IN
         IF ~IsPageType(t) THEN PagesLoop(Tail(infos), hs, pageList, shakes)
         ELSE LET pg == page(t.id, hs[t.id]) IN
              IF pg.err # "nil"
              THEN Return("PagesE", 0, <<>>, TRUE, pg.err, Append(shakes, t.id))
              ELSE PagesLoop(Tail(infos), hs, AppendPage(pageList, pg.val[1]),
                             Append(shakes, t.id))

\* b.PagesE()
PagesE(b) ==
    LET br == browsers[b]
        r  == clients[br.client].remote
    IN
    /\ br.client # 0
    /\ UNCHANGED <<browsers, ctxs, remotes, clients, stream, nEvents, pubs, pubLog, subs,
                   fatalQ, closeRes, targets, call>>
    /\ \E res \in Call(br) :
         IF res # "ok"
         THEN \* return nil, err
              ret' = Return("PagesE", b, <<>>, TRUE, ErrOf(res), <<>>)
         ELSE \E hs \in [1..Len(targets[r]) -> initSession(br)] :
                ret' = [PagesLoop(TargetInfos(r), hs, <<>>, <<>>) EXCEPT !.b = b]

----------------------------------------------------------------------------
\* OpenE on a Browser value that has no client yet
OpenOnce(b) == browsers[b].client = 0 /\ OpenE(b)

\* The goroutines that run without the caller
Background ==
    \/ \E g \in G : PumpStep(g) \/ PumpExit(g) \/ DrainStep(g)
    \/ \E p \in pubs : Publish(p)
    \/ \E i \in DOMAIN subs : UntilStep(i)

\* The lifecycle and the event path together, on every Browser value
Next ==
    \/ \E b \in B : OpenE(b)
    \/ \E b \in B : Ctx(b)
    \/ \E b \in B, d \in Durations : Timeout(b, d)
    \/ \E b \in B : CloseE(b)
    \/ \E c \in DOMAIN ctxs : Expire(c)
    \/ \E c \in DOMAIN ctxs : UserCancel(c)
    \/ \E g \in G, m \in Methods : RemoteEmit(g, m)
    \/ \E r \in DOMAIN remotes : RemoteCrash(r)
    \/ \E b \in B : Subscribe(b)
    \/ \E i \in DOMAIN subs : Receive(i)
    \/ \E b \in B, name \in Methods : WaitEventE(b, name)
    \/ Background

Spec == Init /\ [][Next]_vars

\* The event path: the Browser is opened and closed, events arrive, callers
\* subscribe to b.Event() and wait with WaitEventE
NextBus ==
    \/ OpenOnce(1)
    \/ CloseE(1)
    \/ \E g \in G, m \in Methods : RemoteEmit(g, m)
    \/ \E g \in G : PumpStep(g)
    \/ \E g \in G : PumpExit(g)
    \/ \E p \in pubs : Publish(p)
    \/ \E b \in B : Subscribe(b)
    \/ \E i \in DOMAIN subs : Receive(i)
    \/ \E b \in B, name \in Methods : WaitEventE(b, name)
    \/ \E i \in DOMAIN subs : UntilStep(i)

SpecBus == Init /\ [][NextBus]_vars

\* Waiting under the scope of a Timeout clone
NextTimeout ==
    \/ OpenOnce(1)
    \/ \E b \in B, d \in Durations : Timeout(b, d)
    \/ \E c \in DOMAIN ctxs : Expire(c)
    \/ \E g \in G, m \in Methods : RemoteEmit(g, m)
    \/ \E g \in G : PumpStep(g)
    \/ \E p \in pubs : Publish(p)
    \/ \E b \in B, name \in Methods : WaitEventE(b, name)
    \/ \E i \in DOMAIN subs : UntilStep(i)

SpecTimeout == Init /\ [][NextTimeout]_vars

\* The lifecycle: open, clone, close, and the goroutines of initEvents
NextLife ==
    \/ \E b \in B : OpenE(b)
    \/ \E b \in B : Ctx(b)
    \/ \E b \in B, d \in Durations : Timeout(b, d)
    \/ \E b \in B : CloseE(b)
    \/ \E c \in DOMAIN ctxs : Expire(c)
    \/ \E c \in DOMAIN ctxs : UserCancel(c)
    \/ \E r \in DOMAIN remotes : RemoteCrash(r)
    \/ \E g \in G : PumpExit(g)
    \/ \E g \in G : DrainStep(g)

SpecLife == Init /\ [][NextLife]_vars

\* Calls on an opened Browser and on its Timeout clones
NextCall ==
    \/ OpenOnce(1)
    \/ \E b \in B, d \in Durations : Timeout(b, d)
    \/ \E c \in DOMAIN ctxs : Expire(c)
    \/ CloseE(1)
    \/ \E b \in B, m \in Methods : CallBegin(b, m)
    \/ CallStep
    \/ CallReturn

SpecCall == Init /\ [][NextCall]_vars

\* The operations of an opened Browser and of its Ctx clones, before and after CloseE
NextScoped ==
    \/ OpenOnce(1)
    \/ \E b \in B : Ctx(b)
    \/ \E c \in DOMAIN ctxs : UserCancel(c)
    \/ \E b \in B : CloseE(b)
    \/ \E b \in B, m \in Methods : CallBegin(b, m)
    \/ CallStep
    \/ CallReturn
    \/ \E b \in B : PageE(b)
    \/ \E b \in B : PagesE(b)
    \/ \E b \in B, name \in Methods : WaitEventE(b, name)
    \/ \E i \in DOMAIN subs : UntilStep(i)

SpecScoped == Init /\ [][NextScoped]_vars

\* Pages: the Browser is opened, pages are created and listed, targets come and go
NextPages ==
    \/ OpenOnce(1)
    \/ CloseE(1)
    \/ \E b \in B : PageE(b)
    \/ \E b \in B : PagesE(b)
    \/ \E r \in DOMAIN remotes, type \in TargetTypes : TargetOpened(r, type)
    \/ \E r \in DOMAIN remotes : \E k \in DOMAIN targets[r] : TargetClosed(r, k)

SpecPages == Init /\ [][NextPages]_vars

\* Clones: Browsers are opened, cloned with Ctx and Timeout, and closed
NextClone ==
    \/ \E b \in B : OpenOnce(b)
    \/ \E b \in B : Ctx(b)
    \/ \E b \in B, d \in Durations : Timeout(b, d)
    \/ \E b \in B : CloseE(b)
    \/ \E c \in DOMAIN ctxs : Expire(c)
    \/ \E c \in DOMAIN ctxs : UserCancel(c)

SpecClone == Init /\ [][NextClone]_vars

----------------------------------------------------------------------------
\* Claims.

S == DOMAIN subs

\* the events a subscription has handed to its subscriber
Received(s) == SubSeq(s.got, 1, s.pos)

\* q keeps, for the events of one client, the order of that client's stream
InStreamOrder(q) ==
    \A i, j \in DOMAIN q : (i < j /\ q[i].client = q[j].client) => q[i].id < q[j].id

\* C1: every subscriber of b.Event() receives the events of the transport's
\* stream in the order the stream yielded them.
C1_DeliveredInStreamOrder ==
    \A i \in S : subs[i].kind = "sub" => InStreamOrder(Received(subs[i]))

InStream(id) == \E g \in G : \E k \in DOMAIN stream[g] : stream[g][k].id = id
Pending(id) == \E p \in pubs : p.ev.id = id
Published(id) == {<<g, k>> \in G \X (1..MaxEvents) :
                    k \in DOMAIN pubLog[g] /\ pubLog[g][k].id = id}

\* C2: an event the pump has taken from the stream is waiting for its Publish
\* or has been published exactly once, never both and never neither; a
\* subscription holds exactly the events published on its bus since it was
\* made, each once, and the subscriber has received a prefix of them; and the
\* pump can take the next event whatever the subscribers have left unread.
C2_ExactlyOnce ==
    /\ \A id \in 1..nEvents :
         /\ Cardinality(Published(id)) <= 1
         /\ InStream(id) => ~Pending(id) /\ Published(id) = {}
         /\ ~InStream(id) => (Pending(id) <=> Published(id) = {})
    /\ \A i \in S : subs[i].kind = "sub" =>
         /\ subs[i].got = SubSeq(pubLog[subs[i].bus], subs[i].since + 1,
                                 Len(pubLog[subs[i].bus]))
         /\ subs[i].pos <= Len(subs[i].got)
    /\ \A g \in G :
         clients[g].pumping /\ ClientAlive(g) /\ stream[g] # <<>> => ENABLED PumpStep(g)

\* a subscriber has received two events, all that were published since it subscribed
C2_Witness ==
    \E i \in S : /\ subs[i].kind = "sub"
                 /\ subs[i].pos >= 2
                 /\ subs[i].pos = Len(pubLog[subs[i].bus]) - subs[i].since

\* the events published on the bus of s after s subscribed that have its name
Matching(s) ==
    {k \in DOMAIN pubLog[s.bus] : k > s.since /\ pubLog[s.bus][k].Method = s.name}

FirstMatching(s) == CHOOSE k \in Matching(s) : \A k2 \in Matching(s) : k <= k2

\* C3: a WaitEventE that has returned has returned either the parameters of
\* the first event with its name published after it subscribed, with no error,
\* or the error of its fired scope, with no parameters; one that has not
\* returned has neither.
C3_OneOutcome ==
    \A i \in S : subs[i].kind = "until" =>
      LET s == subs[i] IN
        IF s.active THEN s.err = "" /\ s.payload = <<>>
        ELSE \/ /\ s.err = "nil"
                /\ Matching(s) # {}
                /\ s.payload = JSON(Params(pubLog[s.bus][FirstMatching(s)]))
             \/ /\ s.err \in {"canceled", "deadline"}
                /\ s.err = CtxErr(s.ctx)
                /\ s.payload = <<>>

\* a WaitEventE has returned the parameters of an event that came after one of another name
C3_Witness ==
    \E i \in S : /\ subs[i].kind = "until"
                 /\ subs[i].err = "nil"
                 /\ FirstMatching(subs[i]) > subs[i].since + 1

\* C4: a WaitEventE called under a Timeout scope whose deadline had passed is
\* handed no event, returns the deadline error and no parameters, and is no
\* subscription of the bus once it has returned.
C4_ExpiredTimeout ==
    \A i \in S : (subs[i].kind = "until" /\ subs[i].expired) =>
        /\ subs[i].got = <<>>
        /\ subs[i].err \in {"", "deadline"}
        /\ subs[i].payload = <<>>
        /\ subs[i].err # "" => ~subs[i].active

\* such a WaitEventE has returned, and an event with its name was published after its call
C4_Witness ==
    \E i \in S : /\ subs[i].kind = "until"
                 /\ subs[i].expired
                 /\ subs[i].err = "deadline"
                 /\ Matching(subs[i]) # {}

\* the WaitEventE calls in flight on the connection of Browser b
InFlight(b) ==
    {i \in S : subs[i].kind = "until" /\ subs[i].active /\ subs[i].bus = browsers[b].event}

\* C5: when CloseE returns, the root scope is cancelled and the scope of every
\* WaitEventE in flight on the connection has fired, so that it returns.
C5_CloseUnblocks ==
    [][closeRes' # closeRes =>
         LET b == closeRes'.b IN
           /\ browsers[b].close # 0
           /\ CtxErrIn(ctxs', browsers[b].close) # "none"
           /\ \A i \in InFlight(b) : CtxErrIn(ctxs', subs[i].ctx) # "none"]_vars

\* C6: whatever the Browser.close call returned, CloseE has called the cancel
\* function of the root scope when it returns.
C6_CloseBestEffort ==
    [][closeRes' # closeRes =>
         LET b == closeRes'.b IN
           browsers[b].close # 0 => CtxErrIn(ctxs', browsers[b].close) # "none"]_vars

\* C7: once CloseE has succeeded, nothing more is published on the event bus
\* of the connection.
C7_NoEventAfterClose ==
    [][\A g \in G : clients[g].closed => pubLog'[g] = pubLog[g]]_vars

\* C8: the drain goroutine runs while the connection has not been closed, and
\* has ended when the connection is closed and every goroutine has come to rest.
C8_DrainLifetime ==
    \A g \in G :
        /\ ~clients[g].closed => clients[g].draining
        /\ (clients[g].closed /\ ~ENABLED Background) => ~clients[g].draining

\* C9: OpenE on a Browser with a live connection changes nothing: the Browser
\* keeps its client, event bus and fatal bus, and no client is created.
C9_OpenIsNoOp ==
    [][\A b \in B : LiveConn(b) =>
         /\ browsers'[b].client = browsers[b].client
         /\ browsers'[b].event = browsers[b].event
         /\ browsers'[b].fatal = browsers[b].fatal
         /\ \A g \in DOMAIN clients' : g \notin G => clients'[g].owner # b]_vars

\* CloseE has succeeded on the connection of Browser b
Closed(b) == browsers[b].client # 0 /\ clients[browsers[b].client].closed

\* C10: a Browser whose CloseE has succeeded never has a live connection again.
C10_ClosedIsTerminal ==
    [][\A b \in B : Closed(b) => ~LiveConn(b)']_vars

\* this step is a call of WaitEventE on Browser b
WaitCalled(b) ==
    /\ Len(subs') = Len(subs) + 1
    /\ subs'[Len(subs')].kind = "until"
    /\ subs'[Len(subs')].bus = browsers[b].event
    /\ subs'[Len(subs')].ctx = browsers[b].ctx

\* in this step the Call in progress on Browser b hands its message to the transport
Dispatched(b) ==
    /\ call.b = b
    /\ Len(call'.log) = Len(call.log) + 1
    /\ call'.log[Len(call'.log)] = "client.Call"

\* in this step a PageE or PagesE on Browser b returns
Returned(b) == ret' # ret /\ ret'.b = b

\* C11: on a Browser whose CloseE has succeeded, a WaitEventE is called under
\* a scope that has fired, so that it returns the error and does not wait;
\* a Call gets an error from the transport; PageE and PagesE return an error.
C11_FailsAfterClose ==
    [][\A b \in B : Closed(b) =>
         /\ WaitCalled(b) => CtxErr(browsers[b].ctx) # "none"
         /\ Dispatched(b) => call'.res # "ok"
         /\ Returned(b) => ret'.err = "err"]_vars

\* this step is b.Ctx(ctx) or b.Timeout(d), and NewClone the Browser it returns
Cloning(b) == Ctx(b) \/ \E d \in Durations : Timeout(b, d)
NewClone == browsers'[Len(browsers')]

\* the connections the Browser values hold
Held(bs) == {bs[b].client : b \in DOMAIN bs} \ {0}

\* C12: the Browser returned by Ctx or Timeout has the client, the event bus
\* and the fatal bus of its receiver; making it creates no client and starts
\* or stops no pump, and afterwards every client there is, with its one
\* event pump and one drain, is still the connection of an opened Browser.
C12_ClonesShareConnection ==
    [][\A b \in B : Cloning(b) =>
         /\ NewClone.client = browsers[b].client
         /\ NewClone.event = browsers[b].event
         /\ NewClone.fatal = browsers[b].fatal
         /\ clients' = clients
         /\ Held(browsers') = Held(browsers)
         /\ Cardinality(Held(browsers')) = Len(clients')]_vars

\* an opened Browser and a Timeout clone of it hold the one connection there is
C12_Witness ==
    \E b \in B : /\ b > 1
                 /\ browsers[1].client # 0
                 /\ browsers[b].client = browsers[1].client
                 /\ ctxs[browsers[b].ctx].kind = "timeout"
                 /\ Len(clients) = 1
                 /\ clients[1].pumping /\ clients[1].draining

\* C13: Ctx and Timeout leave every field of every Browser there was as it was.
C13_CloneLeavesReceiver ==
    [][\A b \in B : Cloning(b) => \A o \in B : browsers'[o] = browsers[o]]_vars

\* the contexts made by Timeout
TimeoutScopes(cs) == {c \in DOMAIN cs : cs[c].kind = "timeout"}

\* C14: the scope of a Timeout clone is derived from the scope of its
\* receiver; a scope made by Timeout is done whenever the scope it was
\* derived from is done; and when such a scope itself expires, the scope it
\* was derived from stays as it was.
C14_CancelDownwardOnly ==
    [][/\ \A b \in B : (\E d \in Durations : Timeout(b, d)) =>
            /\ NewClone.ctx \in TimeoutScopes(ctxs') \ DOMAIN ctxs
            /\ ctxs'[NewClone.ctx].parent = browsers[b].ctx
       /\ \A c \in TimeoutScopes(ctxs') :
            CtxErrIn(ctxs', ctxs'[c].parent) # "none" => CtxErrIn(ctxs', c) # "none"
       /\ \A c \in TimeoutScopes(ctxs) :
            ctxs'[c].err # ctxs[c].err =>
                CtxErrIn(ctxs', ctxs[c].parent) = CtxErr(ctxs[c].parent)]_vars

\* the root scope was cancelled by CloseE while a Timeout clone's deadline had
\* not passed, and the clone's scope is done with it
C14_Witness ==
    \E b \in B : LET c == browsers[b].ctx IN
        /\ c \in TimeoutScopes(ctxs)
        /\ ctxs[c].err = "none"
        /\ ctxs[c].parent = browsers[1].ctx
        /\ closeRes.err = "nil"
        /\ CtxErr(c) = "canceled"

\* C15: an OpenE that returns an error returns no Browser, and leaves b
\* without a client and the clients and their pumps as they were.
C15_OpenFailsClean ==
    [][\A b \in B : \A val \in {<<>>, <<b>>} : OpenEReturns(b, val, "err") =>
         /\ val = <<>>
         /\ browsers'[b].client = 0
         /\ clients' = clients]_vars

\* C16: a PageE that returns an error returns a nil Page; and one whose
\* Target.createTarget call failed, so that no target was made, has run no
\* handshake.
C16_NoPageOnError ==
    [][\A b \in B : (Returned(b) /\ ret'.op = "PageE") =>
         /\ ret'.err = "err" => ret'.isNil /\ ret'.val = <<>>
         /\ targets' = targets => ret'.isNil /\ ret'.shakes = <<>>]_vars

\* p is a prefix of q
IsPrefix(p, q) == Len(p) <= Len(q) /\ p = SubSeq(q, 1, Len(p))

\* the ids of the open targets of type "page" of browser process r, in the
\* order of Target.getTargets
PageIds(r) ==
    LET P == SelectSeq(targets[r], LAMBDA t : t.open /\ t.type = "page")
    IN  [i \in 1..Len(P) |-> P[i].id]

\* the browser process Browser b is connected to
RemoteOf(b) == clients[browsers[b].client].remote

MadeOpen(r) == {k \in DOMAIN targets[r] : targets[r][k].made /\ targets[r][k].open}

\* the elements of sequence q
Range(q) == {q[i] : i \in DOMAIN q}

\* C18: the list a PagesE has returned with no error holds every target that
\* a PageE before it returned with no error and that is still open.
C18_CreatedPageIsListed ==
    (ret.op = "PagesE" /\ ret.err = "nil") =>
        MadeOpen(RemoteOf(ret.b)) \subseteq Range(ret.val)

\* a PagesE has returned two pages, the first of them made by PageE
C18_Witness ==
    /\ ret.op = "PagesE"
    /\ ret.err = "nil"
    /\ Len(ret.val) = 2
    /\ ret.val[1] \in MadeOpen(RemoteOf(ret.b))

\* C19: the statements a Call has run are the slow-motion delay and, after it
\* has ended, the transport's Call, each once and in that order: there is no
\* answer of the transport before the delay has ended, and a Call that has
\* returned has run both.
C19_DelayBeforeDispatch ==
    /\ IsPrefix(call.log, <<"slowmotion", "client.Call">>)
    /\ Len(call.log) < 2 => call.res = ""
    /\ (call.pc = 0 /\ call.b # 0) => Len(call.log) = 2 /\ call.res # ""

\* a Call on a Timeout clone has returned the transport's answer
C19_Witness ==
    /\ call.pc = 0
    /\ call.b > 1
    /\ call.res = "ok"

\* C20: the Browser returned by Ctx or Timeout has the close function of its
\* receiver; a Browser whose ctx is set keeps the close function it has,
\* OpenE included; and a CloseE that returns nil has cancelled the root scope
\* its Browser's close function belongs to, or, on a Browser that has none,
\* has left every scope as it was.
C20_ClonesShareClose ==
    [][/\ \A b \in B : Cloning(b) => NewClone.close = browsers[b].close
       /\ \A b \in B : browsers[b].ctx # 0 => browsers'[b].close = browsers[b].close
       /\ (closeRes' # closeRes /\ closeRes'.err = "nil") =>
            LET br == browsers[closeRes'.b] IN
            IF br.close # 0
            THEN /\ ctxs[br.close].kind = "root"
                 /\ CtxErrIn(ctxs', br.close) = "canceled"
            ELSE ctxs' = ctxs]_vars

\* CloseE on a clone has returned nil, and the root scope of the original is cancelled
C20_Witness ==
    /\ closeRes.err = "nil"
    /\ closeRes.b > 1
    /\ browsers[1].close # 0
    /\ browsers[closeRes.b].close = browsers[1].close
    /\ browsers[closeRes.b].ctx # browsers[1].ctx
    /\ CtxErr(browsers[1].ctx) = "canceled"

====
